---- MODULE Spec2Model ----
(***************************************************************************)
(* MacAddressEmulationDxe: a DXE driver that programs a platform-supplied  *)
(* emulated MAC address into one Simple Network Protocol (SNP) interface.  *)
(*                                                                         *)
(* The model covers the driver entry point, the named-event notification   *)
(* handler with its three helpers, the task-priority-level (TPL) changes   *)
(* the handler performs, and the firmware environment the handler reads:   *)
(* the handle database, each SNP's mode data and the platform library.     *)
(***************************************************************************)
EXTENDS Integers, Sequences, FiniteSets, TLC

\* ---------------------------------------------------------------- bounds
NumHandles   == 2   \* controller handles that may carry an SNP instance
NumPermAddrs == 2   \* distinct factory (permanent) Ethernet addresses
MaxNesting   == 2   \* notification handler invocations in progress at once

\* ------------------------------------------------------ program constants
NULL             == 0
TPL_CALLBACK     == 8
TPL_NOTIFY       == 16
TPL_HIGH_LEVEL   == 31
NET_IFTYPE_ETHERNET == 1

\* an interface type that is not Ethernet
NetIfTypeOther == NET_IFTYPE_ETHERNET + 5

Handles   == 1 .. NumHandles
PermAddrs == 1 .. NumPermAddrs
\* The emulated address of the platform; distinct from every factory address.
EmuAddrs  == { NumPermAddrs + 1 }
\* Content of a zero-filled EFI_MAC_ADDRESS (AllocateZeroPool).
ZeroAddr  == NULL

EfiSimpleNetworkStopped     == "EfiSimpleNetworkStopped"
EfiSimpleNetworkStarted     == "EfiSimpleNetworkStarted"
EfiSimpleNetworkInitialized == "EfiSimpleNetworkInitialized"
SnpStates == { EfiSimpleNetworkStopped, EfiSimpleNetworkStarted, EfiSimpleNetworkInitialized }
IfTypes   == { NET_IFTYPE_ETHERNET, NetIfTypeOther }

EFI_SUCCESS           == "EFI_SUCCESS"
EFI_UNSUPPORTED       == "EFI_UNSUPPORTED"
EFI_NOT_FOUND         == "EFI_NOT_FOUND"
EFI_NOT_STARTED       == "EFI_NOT_STARTED"
EFI_OUT_OF_RESOURCES  == "EFI_OUT_OF_RESOURCES"
EFI_DEVICE_ERROR      == "EFI_DEVICE_ERROR"
EFI_INVALID_PARAMETER == "EFI_INVALID_PARAMETER"
EFI_ERROR(Status) == Status # EFI_SUCCESS

\* The entry point has not returned yet.
NotLoaded == "NotLoaded"

\* The address of the one MAC_EMULATION_SNP_NOTIFY_CONTEXT the entry point allocates.
ContextPtr == NULL + 1

VARIABLES
  registry,      \* handles on which gEfiSimpleNetworkProtocolGuid is installed
  snp,           \* snp[h]: the EFI_SIMPLE_NETWORK_MODE of the instance on handle h
  platformOk,    \* platformOk[h]: answer of PlatformMacEmulationSnpCheck (h)
  emulation,     \* status and address IsMacEmulationEnabled returns on this platform
  Context,       \* the MAC_EMULATION_SNP_NOTIFY_CONTEXT (Allocated = it exists)
  entryStatus,   \* value returned by MacAddressEmulationEntry, NotLoaded before
  enableCalled,  \* PlatformMacEmulationEnable has been called
  listening,     \* the named-event listener is registered
  signaled,      \* the listener's event is signaled and its notify is queued
  tpl,           \* current task priority level
  stack,         \* invocations of SimpleNetworkProtocolNotify in progress, innermost last
  call           \* arguments and result of the last direct call of a helper

vars == << registry, snp, platformOk, emulation, Context, entryStatus, enableCalled,
           listening, signaled, tpl, stack, call >>

envVars    == << registry, snp, platformOk, emulation >>
driverVars == << Context, entryStatus, enableCalled, listening >>

\* ------------------------------------------------------------ helpers

\* CompareMem (a, b, NET_ETHER_ADDR_LEN) == 0 on two Ethernet addresses.
CompareMemEqual(a, b) == a = b

\* PlatformMacEmulationSnpCheck (SnpHandle) of the platform library.
PlatformMacEmulationSnpCheck(SnpHandle) == platformOk[SnpHandle]

\* The context a pointer refers to.
Deref(ContextArg) == Context

\* SnpSupportsMacEmuCheck without the comparison against the cached permanent address.
SnpSupportsMacEmuCheck_NoAddressMatch(SnpHandle, Snp, ContextArg) ==
  IF (SnpHandle = NULL) \/ (Snp = NULL) \/ (ContextArg = NULL)
  THEN FALSE
  ELSE
    LET Mode == snp[Snp]
    IN /\ Mode.State = EfiSimpleNetworkInitialized
       /\ Mode.IfType = NET_IFTYPE_ETHERNET
       /\ Mode.MacAddressChangeable
       /\ PlatformMacEmulationSnpCheck(SnpHandle)

\* SnpSupportsMacEmuCheck without the MacAddressChangeable test.
SnpSupportsMacEmuCheck_NoChangeableTest(SnpHandle, Snp, ContextArg) ==
  IF (SnpHandle = NULL) \/ (Snp = NULL) \/ (ContextArg = NULL)
  THEN FALSE
  ELSE
    LET Mode == snp[Snp]
    IN /\ Mode.State = EfiSimpleNetworkInitialized
       /\ Mode.IfType = NET_IFTYPE_ETHERNET
       /\ PlatformMacEmulationSnpCheck(SnpHandle)
       /\ Deref(ContextArg).Assigned =>
            CompareMemEqual(Mode.PermanentAddress, Deref(ContextArg).PermanentAddress)

SnpSupportsMacEmuCheck(SnpHandle, Snp, ContextArg) ==
  IF (SnpHandle = NULL) \/ (Snp = NULL) \/ (ContextArg = NULL)
  THEN FALSE
  ELSE
    LET Mode     == snp[Snp]
        IsMatch1 == TRUE
        IsMatch2 == IF IsMatch1 /\ (Mode.State # EfiSimpleNetworkInitialized) THEN FALSE ELSE IsMatch1
        IsMatch3 == IF IsMatch2 /\ (Mode.IfType # NET_IFTYPE_ETHERNET) THEN FALSE ELSE IsMatch2
        IsMatch4 == IF IsMatch3 /\ ~Mode.MacAddressChangeable THEN FALSE ELSE IsMatch3
        IsMatch5 == IF IsMatch4 /\ ~PlatformMacEmulationSnpCheck(SnpHandle) THEN FALSE ELSE IsMatch4
        IsMatch6 == IF IsMatch5 /\ (Deref(ContextArg).Assigned = TRUE)
                    THEN CompareMemEqual(Mode.PermanentAddress, Deref(ContextArg).PermanentAddress)
                    ELSE IsMatch5
    IN IsMatch6

\* The tests of SnpSupportsMacEmuCheck with every operand of && evaluated:
\* IsMatch & (...) in place of IsMatch && (...).
TestsEvaluated_NoShortCircuit(SnpHandle, Snp, ContextArg) ==
  IF (SnpHandle = NULL) \/ (Snp = NULL) \/ (ContextArg = NULL)
  THEN << "NullCheck" >>
  ELSE
    LET T5 == << "NullCheck", "State", "IfType", "MacAddressChangeable",
                 "PlatformMacEmulationSnpCheck" >>
    IN IF Deref(ContextArg).Assigned = TRUE THEN Append(T5, "CompareMem") ELSE T5

\* The tests SnpSupportsMacEmuCheck evaluates in a call, in the order it
\* evaluates them.  The right operand of IsMatch && (...) is evaluated only
\* when IsMatch is TRUE, and CompareMem is called only inside the last if.
TestsEvaluated(SnpHandle, Snp, ContextArg) ==
  IF (SnpHandle = NULL) \/ (Snp = NULL) \/ (ContextArg = NULL)
  THEN << "NullCheck" >>
  ELSE
    LET Mode     == snp[Snp]
        IsMatch1 == TRUE
        T1       == << "NullCheck" >>
        T2       == IF IsMatch1 THEN Append(T1, "State") ELSE T1
        IsMatch2 == IF IsMatch1 /\ (Mode.State # EfiSimpleNetworkInitialized) THEN FALSE ELSE IsMatch1
        T3       == IF IsMatch2 THEN Append(T2, "IfType") ELSE T2
        IsMatch3 == IF IsMatch2 /\ (Mode.IfType # NET_IFTYPE_ETHERNET) THEN FALSE ELSE IsMatch2
        T4       == IF IsMatch3 THEN Append(T3, "MacAddressChangeable") ELSE T3
        IsMatch4 == IF IsMatch3 /\ ~Mode.MacAddressChangeable THEN FALSE ELSE IsMatch3
        T5       == IF IsMatch4 THEN Append(T4, "PlatformMacEmulationSnpCheck") ELSE T4
        IsMatch5 == IF IsMatch4 /\ ~PlatformMacEmulationSnpCheck(SnpHandle) THEN FALSE ELSE IsMatch4
        T6       == IF IsMatch5 /\ (Deref(ContextArg).Assigned = TRUE)
                    THEN Append(T5, "CompareMem") ELSE T5
    IN T6

\* A function pointer of type SNP_MATCH_FUNCTION is the function it points
\* to, from (SnpHandle, Snp, Context) to BOOLEAN; the NULL pointer is the
\* function with no arguments.
NullFunction == << >>

\* The for loop of FindMatchingSnp without its break: the last match wins.
RECURSIVE FindLoop_LastMatch(_, _, _, _, _)
FindLoop_LastMatch(MatchFunction, MatchFunctionContext, SnpHandleBuffer, HpStatus, HandleIdx) ==
  IF HandleIdx > Len(SnpHandleBuffer)
  THEN NULL
  ELSE
    LET Handle == SnpHandleBuffer[HandleIdx]
        Rest   == FindLoop_LastMatch(MatchFunction, MatchFunctionContext, SnpHandleBuffer,
                                     HpStatus, HandleIdx + 1)
    IN IF Rest # NULL
       THEN Rest
       ELSE IF ~EFI_ERROR(HpStatus[Handle])
               /\ MatchFunction[<< Handle, Handle, MatchFunctionContext >>]
            THEN Handle
            ELSE NULL

\* The for loop of FindMatchingSnp from index HandleIdx on (1-based here).
\* HpStatus[h] is the status HandleProtocol returns for handle h; the
\* instance it yields for handle h is instance h.
RECURSIVE FindLoop(_, _, _, _, _)
FindLoop(MatchFunction, MatchFunctionContext, SnpHandleBuffer, HpStatus, HandleIdx) ==
  IF HandleIdx > Len(SnpHandleBuffer)
  THEN NULL
  ELSE
    LET Handle      == SnpHandleBuffer[HandleIdx]
        Status      == HpStatus[Handle]
        SnpInstance == IF EFI_ERROR(Status) THEN NULL ELSE Handle
    IN IF ~EFI_ERROR(Status) /\ MatchFunction[<< Handle, SnpInstance, MatchFunctionContext >>]
       THEN SnpInstance
       ELSE FindLoop(MatchFunction, MatchFunctionContext, SnpHandleBuffer, HpStatus, HandleIdx + 1)

\* LhbStatus and SnpHandleBuffer are what LocateHandleBuffer returns.
FindMatchingSnp(MatchFunction, MatchFunctionContext, LhbStatus, SnpHandleBuffer, HpStatus) ==
  LET Status == IF MatchFunction # NullFunction THEN LhbStatus ELSE EFI_INVALID_PARAMETER
  IN IF ~EFI_ERROR(Status)
     THEN FindLoop(MatchFunction, MatchFunctionContext, SnpHandleBuffer, HpStatus, 1)
     ELSE NULL

\* The address of SnpSupportsMacEmuCheck, as passed to FindMatchingSnp.
SnpSupportsMacEmuCheckPtr ==
  [ a \in Handles \X Handles \X { ContextPtr } |-> SnpSupportsMacEmuCheck(a[1], a[2], a[3]) ]

\* ------------------------------------------------------------ initial state

\* Mode data of an SNP instance right after its driver installed it.
InstalledModes ==
  [ State                : { EfiSimpleNetworkStopped },
    IfType               : IfTypes,
    MacAddressChangeable : BOOLEAN,
    PermanentAddress     : PermAddrs,
    CurrentAddress       : PermAddrs ]

NoCall == [ op |-> "none" ]

\* Rank of the device properties of handle h under modes m and platform
\* answers ok; used only to order handles.
Rank(m, ok, h) ==
  (IF m[h].IfType = NET_IFTYPE_ETHERNET THEN 0 ELSE 4)
  + (IF m[h].MacAddressChangeable THEN 0 ELSE 2)
  + (IF ok[h] THEN 0 ELSE 1)

\* No operation depends on the number of a handle or of a factory address:
\* handles are enumerated in every order and addresses are only compared.
\* Of the initial states that differ by a renumbering of handles and of
\* factory addresses one is kept: handles are numbered by rank, and address
\* numbers are used in order of first appearance.
Canonical(m, ok) ==
  /\ \A h \in Handles \ {1} : Rank(m, ok, h - 1) <= Rank(m, ok, h)
  /\ \A h \in Handles :
       \/ m[h].PermanentAddress = 1
       \/ \E g \in 1 .. (h - 1) : m[g].PermanentAddress + 1 >= m[h].PermanentAddress

Init ==
  /\ registry = {}
  /\ snp \in { m \in [Handles -> InstalledModes] :
                 \A h \in Handles : m[h].CurrentAddress = m[h].PermanentAddress }
  /\ platformOk \in [Handles -> BOOLEAN]
  /\ Canonical(snp, platformOk)
  /\ emulation \in [ Status : { EFI_SUCCESS, EFI_UNSUPPORTED, EFI_DEVICE_ERROR }, Address : EmuAddrs ]
  /\ Context = [ Allocated |-> FALSE, Assigned |-> FALSE,
                 EmulationAddress |-> ZeroAddr, PermanentAddress |-> ZeroAddr ]
  /\ entryStatus = NotLoaded
  /\ enableCalled = FALSE
  /\ listening = FALSE
  /\ signaled = FALSE
  /\ tpl = TPL_CALLBACK
  /\ stack = << >>
  /\ call = NoCall

\* ------------------------------------------------------------ entry point

\* IsMacEmulationEnabled (&Address) of the platform library: status and address.
IsMacEmulationEnabled == emulation

\* The entry point returning early only for errors other than EFI_UNSUPPORTED.
MacAddressEmulationEntry_NoDeclineReturn(AllocOk, EnableStatus, ListenStatus) ==
  /\ entryStatus = NotLoaded
  /\ stack = << >>
  /\ IF EFI_ERROR(IsMacEmulationEnabled.Status) /\ IsMacEmulationEnabled.Status # EFI_UNSUPPORTED
     THEN /\ entryStatus' = IsMacEmulationEnabled.Status
          /\ UNCHANGED << Context, enableCalled, listening >>
     ELSE IF ~AllocOk
     THEN /\ entryStatus' = EFI_OUT_OF_RESOURCES
          /\ UNCHANGED << Context, enableCalled, listening >>
     ELSE /\ Context' = [ Allocated |-> TRUE, Assigned |-> FALSE,
                          EmulationAddress |-> IsMacEmulationEnabled.Address,
                          PermanentAddress |-> ZeroAddr ]
          /\ enableCalled' = TRUE
          /\ IF EFI_ERROR(EnableStatus)
             THEN /\ entryStatus' = EnableStatus
                  /\ UNCHANGED listening
             ELSE /\ listening' = ~EFI_ERROR(ListenStatus)
                  /\ entryStatus' = EFI_SUCCESS
  /\ UNCHANGED << envVars, signaled, tpl, stack, call >>

\* The entry point returning the status of EfiNamedEventListen when the
\* registration fails.
MacAddressEmulationEntry_ReturnsListenStatus(AllocOk, EnableStatus, ListenStatus) ==
  /\ entryStatus = NotLoaded
  /\ stack = << >>
  /\ IF EFI_ERROR(IsMacEmulationEnabled.Status)
     THEN /\ entryStatus' = IsMacEmulationEnabled.Status
          /\ UNCHANGED << Context, enableCalled, listening >>
     ELSE IF ~AllocOk
     THEN /\ entryStatus' = EFI_OUT_OF_RESOURCES
          /\ UNCHANGED << Context, enableCalled, listening >>
     ELSE /\ Context' = [ Allocated |-> TRUE, Assigned |-> FALSE,
                          EmulationAddress |-> IsMacEmulationEnabled.Address,
                          PermanentAddress |-> ZeroAddr ]
          /\ enableCalled' = TRUE
          /\ IF EFI_ERROR(EnableStatus)
             THEN /\ entryStatus' = EnableStatus
                  /\ UNCHANGED listening
             ELSE /\ listening' = ~EFI_ERROR(ListenStatus)
                  /\ entryStatus' = ListenStatus
  /\ UNCHANGED << envVars, signaled, tpl, stack, call >>

\* The entry point registering the listener before it calls
\* PlatformMacEmulationEnable.
MacAddressEmulationEntry_ListensBeforeEnable(AllocOk, EnableStatus, ListenStatus) ==
  /\ entryStatus = NotLoaded
  /\ stack = << >>
  /\ IF EFI_ERROR(IsMacEmulationEnabled.Status)
     THEN /\ entryStatus' = IsMacEmulationEnabled.Status
          /\ UNCHANGED << Context, enableCalled, listening >>
     ELSE IF ~AllocOk
     THEN /\ entryStatus' = EFI_OUT_OF_RESOURCES
          /\ UNCHANGED << Context, enableCalled, listening >>
     ELSE /\ Context' = [ Allocated |-> TRUE, Assigned |-> FALSE,
                          EmulationAddress |-> IsMacEmulationEnabled.Address,
                          PermanentAddress |-> ZeroAddr ]
          /\ listening' = ~EFI_ERROR(ListenStatus)
          /\ enableCalled' = TRUE
          /\ entryStatus' = EnableStatus
  /\ UNCHANGED << envVars, signaled, tpl, stack, call >>

\* AllocOk tells whether AllocateZeroPool succeeds, EnableStatus is what
\* PlatformMacEmulationEnable returns and ListenStatus what
\* EfiNamedEventListen returns.
MacAddressEmulationEntry(AllocOk, EnableStatus, ListenStatus) ==
  /\ entryStatus = NotLoaded
  /\ stack = << >>
  /\ IF EFI_ERROR(IsMacEmulationEnabled.Status)
     THEN /\ entryStatus' = IsMacEmulationEnabled.Status
          /\ UNCHANGED << Context, enableCalled, listening >>
     ELSE IF ~AllocOk
     THEN /\ entryStatus' = EFI_OUT_OF_RESOURCES
          /\ UNCHANGED << Context, enableCalled, listening >>
     ELSE /\ Context' = [ Allocated |-> TRUE, Assigned |-> FALSE,
                          EmulationAddress |-> IsMacEmulationEnabled.Address,
                          PermanentAddress |-> ZeroAddr ]
          /\ enableCalled' = TRUE
          /\ IF EFI_ERROR(EnableStatus)
             THEN /\ entryStatus' = EnableStatus
                  /\ UNCHANGED listening
             ELSE /\ listening' = ~EFI_ERROR(ListenStatus)
                  /\ entryStatus' = EFI_SUCCESS
  /\ UNCHANGED << envVars, signaled, tpl, stack, call >>

\* ------------------------------------------------------------ environment

\* A queued notification of the listener's event is dispatched as soon as the
\* TPL is below the event's TPL.
DispatchPending == signaled /\ listening /\ tpl < TPL_NOTIFY

\* Code of the network stack runs at base level, outside every notification.
AtBaseLevel == stack = << >> /\ ~DispatchPending

\* A network driver installs the Simple Network Protocol on handle h.
SnpInstall(h) ==
  /\ AtBaseLevel
  /\ h \notin registry
  /\ registry' = registry \cup {h}
  /\ UNCHANGED << snp, platformOk, emulation, driverVars, signaled, tpl, stack, call >>

\* Snp->Initialize () completes on handle h and the interface-initialized
\* named event is signaled.  It runs at TPL_CALLBACK or below: from the
\* network stack at base level, or from code the handler calls after it
\* lowered the TPL to TPL_CALLBACK.
SnpInitialize(h) ==
  /\ ~DispatchPending
  /\ tpl <= TPL_CALLBACK
  /\ Len(stack) < MaxNesting
  /\ h \in registry
  /\ snp[h].State # EfiSimpleNetworkInitialized
  /\ snp' = [snp EXCEPT ![h].State = EfiSimpleNetworkInitialized]
  /\ signaled' = listening
  /\ UNCHANGED << registry, platformOk, emulation, driverVars, tpl, stack, call >>

\* Snp->Shutdown () and Snp->Stop () on handle h.
SnpStop(h) ==
  /\ AtBaseLevel
  /\ h \in registry
  /\ snp[h].State = EfiSimpleNetworkInitialized
  /\ snp' = [snp EXCEPT ![h].State = EfiSimpleNetworkStopped]
  /\ UNCHANGED << registry, platformOk, emulation, driverVars, signaled, tpl, stack, call >>

\* ------------------------------------------------------------ notification

Top       == stack[Len(stack)]
SetTop(f) == [stack EXCEPT ![Len(stack)] = f]
Pop       == SubSeq(stack, 1, Len(stack) - 1)

\* All orders in which the handles of S can be enumerated.
Orderings(S) ==
  { b \in [1 .. Cardinality(S) -> S] : \A i, j \in 1 .. Cardinality(S) : b[i] = b[j] => i = j }

\* What LocateHandleBuffer (ByProtocol, SNP) can return: a status and a buffer.
LocateHandleBuffer ==
  IF registry = {}
  THEN { << EFI_NOT_FOUND, << >> >>, << EFI_OUT_OF_RESOURCES, << >> >> }
  ELSE { << EFI_SUCCESS, b >> : b \in Orderings(registry) } \cup { << EFI_OUT_OF_RESOURCES, << >> >> }

\* What HandleProtocol can return for each handle.
HandleProtocol == [Handles -> { EFI_SUCCESS, EFI_UNSUPPORTED }]

\* The event dispatcher raises the TPL to the event's TPL, clears the signal
\* and calls the notify function with the registered context.
Dispatch ==
  /\ DispatchPending
  /\ Len(stack) < MaxNesting
  /\ stack' = Append(stack, [ pc |-> "Notify", Context |-> ContextPtr,
                              SnpToConfigureEmu |-> NULL, OldTpl |-> NULL,
                              Status |-> EFI_NOT_STARTED, ReturnTpl |-> tpl ])
  /\ tpl' = TPL_NOTIFY
  /\ signaled' = FALSE
  /\ UNCHANGED << envVars, driverVars, call >>

\* SimpleNetworkProtocolNotify up to the call of SetSnpMacViaContext.
NotifyFind(Lhb, HpStatus) ==
  /\ stack # << >>
  /\ Top.pc = "Notify"
  /\ IF Top.Context = NULL
     THEN /\ stack' = Pop
          /\ tpl' = Top.ReturnTpl
     ELSE /\ stack' = SetTop([Top EXCEPT
                 !.SnpToConfigureEmu = FindMatchingSnp(SnpSupportsMacEmuCheckPtr, Top.Context,
                                                       Lhb[1], Lhb[2], HpStatus),
                 !.pc = "SetSnpMacViaContext"])
          /\ UNCHANGED tpl
  /\ UNCHANGED << envVars, driverVars, signaled, call >>

\* SetSnpMacViaContext without the test of line 154.
SetRaiseTpl_NoNullTest ==
  /\ stack # << >>
  /\ Top.pc = "SetSnpMacViaContext"
  /\ stack' = SetTop([Top EXCEPT !.OldTpl = tpl, !.pc = "RestoreCallback"])
  /\ tpl' = TPL_HIGH_LEVEL
  /\ UNCHANGED << envVars, driverVars, signaled, call >>

\* SetSnpMacViaContext: the NULL test and the first RaiseTPL.
SetRaiseTpl ==
  /\ stack # << >>
  /\ Top.pc = "SetSnpMacViaContext"
  /\ IF (Top.SnpToConfigureEmu # NULL) /\ (Top.Context # NULL)
     THEN /\ stack' = SetTop([Top EXCEPT !.OldTpl = tpl, !.pc = "RestoreCallback"])
          /\ tpl' = TPL_HIGH_LEVEL
     ELSE /\ stack' = SetTop([Top EXCEPT !.pc = "CheckStatus"])
          /\ UNCHANGED tpl
  /\ UNCHANGED << envVars, driverVars, signaled, call >>

\* gBS->RestoreTPL (TPL_CALLBACK)
SetRestoreCallback ==
  /\ stack # << >>
  /\ Top.pc = "RestoreCallback"
  /\ tpl' = TPL_CALLBACK
  /\ stack' = SetTop([Top EXCEPT !.pc = "StationAddress"])
  /\ UNCHANGED << envVars, driverVars, signaled, call >>

\* The StationAddress call passing &Context->PermanentAddress.
SetStationAddress_PassesPermanent(Status) ==
  /\ stack # << >>
  /\ Top.pc = "StationAddress"
  /\ ~DispatchPending
  /\ snp' = IF EFI_ERROR(Status) THEN snp
            ELSE [snp EXCEPT ![Top.SnpToConfigureEmu].CurrentAddress = Context.PermanentAddress]
  /\ stack' = SetTop([Top EXCEPT !.Status = Status, !.pc = "RaiseAgain"])
  /\ UNCHANGED << registry, platformOk, emulation, driverVars, signaled, tpl, call >>

\* The StationAddress call made on every registered interface that passes the
\* eligibility check, not on the selected one only.
SetStationAddress_WritesAllEligible(Status) ==
  /\ stack # << >>
  /\ Top.pc = "StationAddress"
  /\ ~DispatchPending
  /\ snp' = IF EFI_ERROR(Status) THEN snp
            ELSE [ h \in Handles |->
                     IF h \in registry /\ SnpSupportsMacEmuCheck(h, h, Top.Context)
                     THEN [snp[h] EXCEPT !.CurrentAddress = Context.EmulationAddress]
                     ELSE snp[h] ]
  /\ stack' = SetTop([Top EXCEPT !.Status = Status, !.pc = "RaiseAgain"])
  /\ UNCHANGED << registry, platformOk, emulation, driverVars, signaled, tpl, call >>

\* Snp->StationAddress (Snp, FALSE, &Context->EmulationAddress) returns Status.
SetStationAddress(Status) ==
  /\ stack # << >>
  /\ Top.pc = "StationAddress"
  /\ ~DispatchPending
  /\ snp' = IF EFI_ERROR(Status) THEN snp
            ELSE [snp EXCEPT ![Top.SnpToConfigureEmu].CurrentAddress = Context.EmulationAddress]
  /\ stack' = SetTop([Top EXCEPT !.Status = Status, !.pc = "RaiseAgain"])
  /\ UNCHANGED << registry, platformOk, emulation, driverVars, signaled, tpl, call >>

\* the second gBS->RaiseTPL (TPL_HIGH_LEVEL)
SetRaiseAgain ==
  /\ stack # << >>
  /\ Top.pc = "RaiseAgain"
  /\ ~DispatchPending
  /\ tpl' = TPL_HIGH_LEVEL
  /\ stack' = SetTop([Top EXCEPT !.pc = "RestoreOld"])
  /\ UNCHANGED << envVars, driverVars, signaled, call >>

\* The last RestoreTPL of SetSnpMacViaContext restoring TPL_CALLBACK, as the
\* first does, in place of OldTpl.
SetRestoreOld_RestoresCallback ==
  /\ stack # << >>
  /\ Top.pc = "RestoreOld"
  /\ tpl' = TPL_CALLBACK
  /\ stack' = SetTop([Top EXCEPT !.pc = "CheckStatus"])
  /\ UNCHANGED << envVars, driverVars, signaled, call >>

\* gBS->RestoreTPL (OldTpl)
SetRestoreOld ==
  /\ stack # << >>
  /\ Top.pc = "RestoreOld"
  /\ tpl' = Top.OldTpl
  /\ stack' = SetTop([Top EXCEPT !.pc = "CheckStatus"])
  /\ UNCHANGED << envVars, driverVars, signaled, call >>

\* The end of SetSnpMacViaContext setting Assigned without caching the address.
SetCheckStatus_NoAddressCopy ==
  /\ stack # << >>
  /\ Top.pc = "CheckStatus"
  /\ Context' = IF EFI_ERROR(Top.Status) THEN Context ELSE [Context EXCEPT !.Assigned = TRUE]
  /\ stack' = Pop
  /\ tpl' = Top.ReturnTpl
  /\ UNCHANGED << envVars, entryStatus, enableCalled, listening, signaled, call >>

\* The end of SetSnpMacViaContext updating the context whatever the status
\* of the StationAddress call was.
SetCheckStatus_IgnoresStatus ==
  /\ stack # << >>
  /\ Top.pc = "CheckStatus"
  /\ Context' = IF Top.SnpToConfigureEmu = NULL THEN Context
                ELSE [Context EXCEPT !.PermanentAddress = snp[Top.SnpToConfigureEmu].PermanentAddress,
                                     !.Assigned = TRUE]
  /\ stack' = Pop
  /\ tpl' = Top.ReturnTpl
  /\ UNCHANGED << envVars, entryStatus, enableCalled, listening, signaled, call >>

\* The end of SetSnpMacViaContext storing the outcome of the call in
\* Assigned: Context->Assigned = !EFI_ERROR (Status).
SetCheckStatus_StoresOutcome ==
  /\ stack # << >>
  /\ Top.pc = "CheckStatus"
  /\ Context' = IF EFI_ERROR(Top.Status) THEN [Context EXCEPT !.Assigned = FALSE]
                ELSE [Context EXCEPT !.PermanentAddress = snp[Top.SnpToConfigureEmu].PermanentAddress,
                                     !.Assigned = TRUE]
  /\ stack' = Pop
  /\ tpl' = Top.ReturnTpl
  /\ UNCHANGED << envVars, entryStatus, enableCalled, listening, signaled, call >>

\* The status test of SetSnpMacViaContext, its context update, and the return
\* of the handler to the dispatcher, which restores the TPL it dispatched at.
SetCheckStatus ==
  /\ stack # << >>
  /\ Top.pc = "CheckStatus"
  /\ Context' = IF EFI_ERROR(Top.Status) THEN Context
                ELSE [Context EXCEPT !.PermanentAddress = snp[Top.SnpToConfigureEmu].PermanentAddress,
                                     !.Assigned = TRUE]
  /\ stack' = Pop
  /\ tpl' = Top.ReturnTpl
  /\ UNCHANGED << envVars, entryStatus, enableCalled, listening, signaled, call >>

SimpleNetworkProtocolNotify ==
  \/ \E Lhb \in LocateHandleBuffer, HpStatus \in HandleProtocol : NotifyFind(Lhb, HpStatus)
  \/ SetRaiseTpl
  \/ SetRestoreCallback
  \/ \E Status \in { EFI_SUCCESS, EFI_DEVICE_ERROR } : SetStationAddress(Status)
  \/ SetRaiseAgain
  \/ SetRestoreOld
  \/ SetCheckStatus

Environment ==
  \/ \E h \in Handles : SnpInstall(h)
  \/ \E h \in Handles : SnpInitialize(h)
  \/ \E h \in Handles : SnpStop(h)

Entry ==
  \E AllocOk \in BOOLEAN,
     EnableStatus \in { EFI_SUCCESS, EFI_UNSUPPORTED, EFI_DEVICE_ERROR },
     ListenStatus \in { EFI_SUCCESS, EFI_OUT_OF_RESOURCES } :
       MacAddressEmulationEntry(AllocOk, EnableStatus, ListenStatus)

Next ==
  \/ Entry
  \/ Environment
  \/ Dispatch
  \/ SimpleNetworkProtocolNotify

Spec == Init /\ [][Next]_vars


\* ------------------------------------------------- direct calls of the helpers

\* Every mode an SNP instance can present.
AllModes ==
  [ State                : SnpStates,
    IfType               : IfTypes,
    MacAddressChangeable : BOOLEAN,
    PermanentAddress     : PermAddrs,
    CurrentAddress       : PermAddrs ]

\* A mode that passes every test the eligibility check makes on the mode.
DefaultMode ==
  [ State |-> EfiSimpleNetworkInitialized, IfType |-> NET_IFTYPE_ETHERNET,
    MacAddressChangeable |-> TRUE, PermanentAddress |-> 1, CurrentAddress |-> 1 ]

\* The contexts the driver can hold: unassigned, or assigned with a cached address.
Contexts ==
  { [ Allocated |-> TRUE, Assigned |-> FALSE, EmulationAddress |-> a, PermanentAddress |-> ZeroAddr ] :
      a \in EmuAddrs }
  \cup
  [ Allocated : { TRUE }, Assigned : { TRUE }, EmulationAddress : EmuAddrs, PermanentAddress : PermAddrs ]

InitRest ==
  /\ emulation \in [ Status : { EFI_SUCCESS }, Address : EmuAddrs ]
  /\ Context \in Contexts
  /\ entryStatus = EFI_SUCCESS
  /\ enableCalled = TRUE
  /\ listening = TRUE
  /\ signaled = FALSE
  /\ tpl = TPL_CALLBACK
  /\ stack = << >>
  /\ call = NoCall

\* Inputs of SnpSupportsMacEmuCheck: handle 1 carries any mode.
InitCheck ==
  /\ registry = Handles
  /\ snp \in { m \in [Handles -> AllModes] :
                 /\ m[1].CurrentAddress = m[1].PermanentAddress
                 /\ \A h \in Handles \ {1} : m[h] = DefaultMode }
  /\ platformOk \in [Handles -> BOOLEAN]
  /\ InitRest

CheckCall(SnpHandle, Snp, ContextArg) ==
  /\ call' = [ op |-> "SnpSupportsMacEmuCheck", SnpHandle |-> SnpHandle, Snp |-> Snp,
               Context |-> ContextArg,
               evaluated |-> TestsEvaluated(SnpHandle, Snp, ContextArg),
               ret |-> SnpSupportsMacEmuCheck(SnpHandle, Snp, ContextArg) ]
  /\ UNCHANGED << envVars, driverVars, signaled, tpl, stack >>

NextCheck ==
  \E SnpHandle \in Handles \cup {NULL}, Snp \in Handles \cup {NULL}, ContextArg \in { NULL, ContextPtr } :
    CheckCall(SnpHandle, Snp, ContextArg)

SpecCheck == InitCheck /\ [][NextCheck]_vars

\* Inputs of FindMatchingSnp: any registry content.
InitFind ==
  /\ registry \in SUBSET Handles
  /\ snp = [h \in Handles |-> DefaultMode]
  /\ platformOk = [h \in Handles |-> TRUE]
  /\ InitRest

\* The match functions a caller can pass: NULL, or one that answers Match[h]
\* for handle h.
MatchFunctions ==
  { NullFunction } \cup
  { [ a \in Handles \X Handles \X { ContextPtr } |-> Match[a[1]] ] : Match \in [Handles -> BOOLEAN] }

FindCall(MatchFunction, Lhb, HpStatus) ==
  /\ call' = [ op |-> "FindMatchingSnp", MatchFunction |-> MatchFunction,
               LhbStatus |-> Lhb[1], SnpHandleBuffer |-> Lhb[2], HpStatus |-> HpStatus,
               ret |-> FindMatchingSnp(MatchFunction, ContextPtr, Lhb[1], Lhb[2], HpStatus) ]
  /\ UNCHANGED << envVars, driverVars, signaled, tpl, stack >>

NextFind ==
  \E MatchFunction \in MatchFunctions, Lhb \in LocateHandleBuffer, HpStatus \in HandleProtocol :
    FindCall(MatchFunction, Lhb, HpStatus)

SpecFind == InitFind /\ [][NextFind]_vars


\* ------------------------------------------------------------ properties

\* Interfaces whose station address is the emulated address: those on which a
\* StationAddress write of this driver has succeeded.
Emulated ==
  { h \in Handles : Context.Allocated /\ snp[h].CurrentAddress = Context.EmulationAddress }

\* C1: exclusivity.  In every reachable state at most one permanent address
\* has received the emulated address: all interfaces a StationAddress write
\* succeeded on share one permanent address.
C1_Exclusivity ==
  Cardinality({ snp[h].PermanentAddress : h \in Emulated }) <= 1

\* The eligibility check as the scanner applies it to the interface on handle h.
Eligible(h) == SnpSupportsMacEmuCheck(h, h, ContextPtr)

\* Handle h passes the tests of the eligibility check that do not involve the context.
DeviceOk(h) ==
  /\ snp[h].State = EfiSimpleNetworkInitialized
  /\ snp[h].IfType = NET_IFTYPE_ETHERNET
  /\ snp[h].MacAddressChangeable
  /\ platformOk[h]

\* The innermost handler run is about to finish SetSnpMacViaContext.
AtCheckStatus == stack # << >> /\ Top.pc = "CheckStatus"

\* A step in which SetSnpMacViaContext completes after a successful
\* StationAddress call: the successful Assign on device Top.SnpToConfigureEmu.
AssignStep == AtCheckStatus /\ ~EFI_ERROR(Top.Status) /\ stack' = Pop

\* C2 as stated: right after a successful Assign on device D the eligibility
\* check refuses every handle other than D's.
C2_OtherHandleRefused ==
  [][AssignStep => \A D2 \in Handles \ { Top.SnpToConfigureEmu } : ~Eligible(D2)']_vars

\* C2 amended: a successful Assign on D caches D's permanent address in the
\* context, nothing but a successful Assign changes the context afterwards,
\* and while Context.Assigned is TRUE the check refuses every device whose
\* permanent address differs from the cached one, that is, from the address
\* of the device of the most recent successful Assign.
C2_OtherAddressRefused ==
  [][ /\ AssignStep =>
           /\ Context'.Assigned
           /\ Context'.PermanentAddress = snp[Top.SnpToConfigureEmu].PermanentAddress
      /\ (Context.Assigned /\ ~AssignStep) => Context' = Context
      /\ Context'.Assigned =>
           \A D2 \in Handles :
             snp'[D2].PermanentAddress # Context'.PermanentAddress => ~Eligible(D2)' ]_vars

\* An assignment has succeeded and a second interface that passes every
\* other test is refused because its permanent address differs.
C2_Witness ==
  /\ Context.Assigned
  /\ \E D2 \in registry :
       /\ DeviceOk(D2)
       /\ snp[D2].PermanentAddress # Context.PermanentAddress
       /\ ~Eligible(D2)

\* C3: idempotence.  When no handler run is in progress, every interface a
\* successful Assign was made on, and that still passes the tests on its
\* mode and the platform check, is accepted by a repeated eligibility check.
C3_Idempotence ==
  stack = << >> => \A D \in Emulated : DeviceOk(D) => Eligible(D)

\* Every eligibility predicate passes for the arguments of a call.
AllPredicatesPass(SnpHandle, Snp, ContextArg) ==
  /\ SnpHandle # NULL
  /\ Snp # NULL
  /\ ContextArg # NULL
  /\ snp[Snp].State = EfiSimpleNetworkInitialized
  /\ snp[Snp].IfType = NET_IFTYPE_ETHERNET
  /\ snp[Snp].MacAddressChangeable
  /\ platformOk[SnpHandle]
  /\ Context.Assigned => snp[Snp].PermanentAddress = Context.PermanentAddress

\* C4: SnpSupportsMacEmuCheck returns TRUE exactly when every eligibility
\* predicate passes, so FALSE for a candidate that fails at least one.
C4_ExactlyWhenAllPass ==
  call.op = "SnpSupportsMacEmuCheck" =>
    (call.ret <=> AllPredicatesPass(call.SnpHandle, call.Snp, call.Context))

\* A candidate that fails only the permanent-address match was refused.
C4_Witness ==
  /\ call.op = "SnpSupportsMacEmuCheck"
  /\ call.SnpHandle # NULL /\ call.Snp = call.SnpHandle /\ call.Context # NULL
  /\ DeviceOk(call.Snp)
  /\ Context.Assigned
  /\ snp[call.Snp].PermanentAddress # Context.PermanentAddress
  /\ call.ret = FALSE

\* Every way LocateHandleBuffer and HandleProtocol can succeed on all handles.
Enumerations == { << Lhb, HpStatus >> \in LocateHandleBuffer \X HandleProtocol :
                    /\ ~EFI_ERROR(Lhb[1])
                    /\ \A h \in Handles : ~EFI_ERROR(HpStatus[h]) }

\* The scan selects the one eligible interface, in whatever order the
\* registry is enumerated.
SelectsTheOnlyEligible ==
  \A E \in registry :
    (Eligible(E) /\ \A h \in registry \ {E} : ~Eligible(h)) =>
      \A e \in Enumerations :
        FindMatchingSnp(SnpSupportsMacEmuCheckPtr, ContextPtr, e[1][1], e[1][2], e[2]) = E

\* C5: the platform reports emulation enabled with address A and the listener
\* is armed.  A scan of a registry with one eligible interface selects it,
\* and when the handler run ends after a successful StationAddress call the
\* selected interface is an eligible one of the registry, its station
\* address is A, Context.Assigned is TRUE and Context.PermanentAddress is
\* its permanent address.
C5_EmulatedAfterEvent ==
  /\ [](listening => SelectsTheOnlyEligible)
  /\ [][AssignStep =>
          /\ emulation.Status = EFI_SUCCESS
          /\ listening
          /\ Top.SnpToConfigureEmu \in registry
          /\ DeviceOk(Top.SnpToConfigureEmu)
          /\ snp'[Top.SnpToConfigureEmu].CurrentAddress = emulation.Address
          /\ Context'.Assigned
          /\ Context'.PermanentAddress = snp'[Top.SnpToConfigureEmu].PermanentAddress]_vars

\* The event has been handled for a registry with exactly one eligible interface.
C5_Witness ==
  /\ stack = << >>
  /\ listening
  /\ Context.Assigned
  /\ \E D \in registry :
       /\ DeviceOk(D)
       /\ \A h \in registry \ {D} : ~DeviceOk(h)
       /\ snp[D].CurrentAddress = emulation.Address
       /\ Context.PermanentAddress = snp[D].PermanentAddress

\* A step in which the innermost handler run finishes its scan.
FindStep ==
  /\ stack # << >>
  /\ Top.pc = "Notify"
  /\ Len(stack') = Len(stack)
  /\ stack'[Len(stack)].pc = "SetSnpMacViaContext"

\* A step in which the StationAddress call of the innermost run returns.
WriteStep ==
  /\ stack # << >>
  /\ Top.pc = "StationAddress"
  /\ Len(stack') = Len(stack)
  /\ stack'[Len(stack)].pc = "RaiseAgain"

WriteOkStep   == WriteStep /\ ~EFI_ERROR(stack'[Len(stack)].Status)
WriteFailStep == WriteStep /\ EFI_ERROR(stack'[Len(stack)].Status)

\* C6 as stated, on a registry that holds a single interface: once an
\* assignment has succeeded no further successful StationAddress write is
\* issued.
C6_WrittenOnce ==
  [][(WriteOkStep /\ registry = { Top.SnpToConfigureEmu }) => ~Context.Assigned]_vars

\* C6 amended: the write is repeated on later events.  A handler run that
\* scans after a successful assignment selects only an interface whose
\* permanent address equals Context.PermanentAddress, and every successful
\* StationAddress write sets the station address of the selected interface,
\* and of no other, to Context.EmulationAddress.
C6_ReprogramsCachedDevice ==
  [][ /\ (FindStep /\ Context.Assigned /\ stack'[Len(stack)].SnpToConfigureEmu # NULL) =>
           snp[stack'[Len(stack)].SnpToConfigureEmu].PermanentAddress = Context.PermanentAddress
      /\ WriteOkStep =>
           /\ snp'[Top.SnpToConfigureEmu].CurrentAddress = Context.EmulationAddress
           /\ \A h \in Handles \ { Top.SnpToConfigureEmu } : snp'[h] = snp[h] ]_vars

\* A StationAddress write has succeeded again on the only registered
\* interface after the assignment to it.
C6_Witness ==
  /\ Context.Assigned
  /\ stack # << >>
  /\ Top.pc = "RaiseAgain"
  /\ ~EFI_ERROR(Top.Status)
  /\ registry = { Top.SnpToConfigureEmu }

\* A step in which SetSnpMacViaContext completes after a failed
\* StationAddress call.
FailStep ==
  AtCheckStatus /\ Top.SnpToConfigureEmu # NULL /\ EFI_ERROR(Top.Status) /\ stack' = Pop

\* C7: a failing StationAddress call changes no interface; SetSnpMacViaContext
\* then leaves the context unmodified and the handler returns to the
\* dispatcher with the listener still registered; the candidate is as
\* eligible for a later event as it was, and a run whose call succeeds sets
\* Assigned.
C7_FailureLeavesContext ==
  [][ /\ WriteFailStep => snp' = snp
      /\ FailStep =>
           /\ Context' = Context
           /\ listening' = listening /\ entryStatus' = entryStatus
           /\ tpl' = Top.ReturnTpl
           /\ \A D \in Handles : (D = Top.SnpToConfigureEmu /\ Eligible(D)) => Eligible(D)'
      /\ AssignStep => Context'.Assigned ]_vars

\* SetSnpMacViaContext is about to finish after a failed StationAddress
\* call on a candidate, with no assignment made so far.
C7_Witness ==
  /\ AtCheckStatus
  /\ Top.SnpToConfigureEmu # NULL
  /\ EFI_ERROR(Top.Status)
  /\ ~Context.Assigned
  /\ Eligible(Top.SnpToConfigureEmu)

\* C8: on a platform whose IsMacEmulationEnabled reports EFI_UNSUPPORTED the
\* entry point returns EFI_UNSUPPORTED with no context allocated,
\* PlatformMacEmulationEnable not called and no listener registered, no
\* handler run ever starts and no interface's station address is written.
C8_DeclinedDoesNothing ==
  emulation.Status = EFI_UNSUPPORTED =>
    /\ entryStatus \in { NotLoaded, EFI_UNSUPPORTED }
    /\ ~Context.Allocated
    /\ ~enableCalled
    /\ ~listening
    /\ ~signaled
    /\ stack = << >>
    /\ \A h \in Handles : snp[h].CurrentAddress = snp[h].PermanentAddress

\* The entry point has declined although an interface that passes every
\* device test is initialized.
C8_Witness ==
  /\ emulation.Status = EFI_UNSUPPORTED
  /\ entryStatus = EFI_UNSUPPORTED
  /\ \E h \in registry : DeviceOk(h)

\* Handle h is an interface of the enumeration the match function accepted.
CallMatches(h) ==
  /\ ~EFI_ERROR(call.HpStatus[h])
  /\ call.MatchFunction[<< h, h, ContextPtr >>]

\* C9: FindMatchingSnp returns NULL over an empty registry; over an
\* enumeration LocateHandleBuffer delivered it returns the first interface
\* in enumeration order the match function returns TRUE for, whatever its
\* position, and NULL if there is none.
C9_FirstMatch ==
  call.op = "FindMatchingSnp" =>
    /\ registry = {} => call.ret = NULL
    /\ (call.MatchFunction = NullFunction \/ EFI_ERROR(call.LhbStatus)) => call.ret = NULL
    /\ (call.MatchFunction # NullFunction /\ ~EFI_ERROR(call.LhbStatus)) =>
         IF \E i \in 1 .. Len(call.SnpHandleBuffer) : CallMatches(call.SnpHandleBuffer[i])
         THEN \E i \in 1 .. Len(call.SnpHandleBuffer) :
                /\ call.ret = call.SnpHandleBuffer[i]
                /\ CallMatches(call.SnpHandleBuffer[i])
                /\ \A j \in 1 .. (i - 1) : ~CallMatches(call.SnpHandleBuffer[j])
         ELSE call.ret = NULL

\* The only interface the match function accepts is the last of a full
\* enumeration, and it was returned.
C9_Witness ==
  /\ call.op = "FindMatchingSnp"
  /\ call.MatchFunction # NullFunction
  /\ Len(call.SnpHandleBuffer) = NumHandles
  /\ \A h \in Handles : ~EFI_ERROR(call.HpStatus[h])
  /\ \A i \in 1 .. NumHandles :
       call.MatchFunction[<< call.SnpHandleBuffer[i], call.SnpHandleBuffer[i], ContextPtr >>]
         <=> (i = NumHandles)
  /\ call.ret = call.SnpHandleBuffer[NumHandles]

\* C10: whenever the handler is about to execute Snp->StationAddress, the
\* task priority level is TPL_HIGH_LEVEL.
C10_WriteAtHighLevel ==
  (stack # << >> /\ Top.pc = "StationAddress") => tpl = TPL_HIGH_LEVEL

\* C11: notification callbacks are serialized.  No run of
\* SimpleNetworkProtocolNotify begins while another run of it is in
\* progress: at most one invocation is on the stack.
C11_Serialized ==
  Len(stack) <= 1

\* No interface carries the emulated address and no handler run is queued or
\* in progress.
NothingWritten ==
  /\ ~signaled
  /\ stack = << >>
  /\ \A h \in Handles : snp[h].CurrentAddress = snp[h].PermanentAddress

\* A step of the entry point in which IsMacEmulationEnabled and the
\* allocation succeed, PlatformMacEmulationEnable returns EnableStatus and
\* EfiNamedEventListen, if reached, returns ListenStatus.
EntryStep(AllocOk, EnableStatus, ListenStatus) ==
  /\ ~EFI_ERROR(IsMacEmulationEnabled.Status)
  /\ MacAddressEmulationEntry(AllocOk, EnableStatus, ListenStatus)

\* C12: when EfiNamedEventListen fails after PlatformMacEmulationEnable
\* succeeded, the entry point returns EFI_SUCCESS with no listener
\* registered; in a driver loaded without a listener no handler run is ever
\* queued or started and no interface's station address is written.
C12_ListenFailureNonFatal ==
  /\ [][\A ListenStatus \in { EFI_OUT_OF_RESOURCES, EFI_INVALID_PARAMETER } :
          EntryStep(TRUE, EFI_SUCCESS, ListenStatus) =>
            /\ entryStatus' = EFI_SUCCESS
            /\ enableCalled'
            /\ ~listening']_vars
  /\ []((entryStatus = EFI_SUCCESS /\ ~listening) => NothingWritten)

\* The driver is loaded without a listener and an interface that passes
\* every device test has been initialized since, its address untouched.
C12_Witness ==
  /\ entryStatus = EFI_SUCCESS
  /\ enableCalled
  /\ ~listening
  /\ \E h \in registry : DeviceOk(h) /\ snp[h].CurrentAddress = snp[h].PermanentAddress

\* C13: fatal setup errors are propagated and leave the driver unarmed.  When
\* the allocation fails the entry point returns EFI_OUT_OF_RESOURCES; when
\* PlatformMacEmulationEnable fails it returns that status; in both cases no
\* listener is registered and no handler run ever starts.  The entry point
\* returns EFI_SUCCESS only when IsMacEmulationEnabled, the allocation and
\* PlatformMacEmulationEnable all succeeded.
C13_FatalSetupErrors ==
  /\ [][\A AllocOk \in BOOLEAN :
        \A EnableStatus \in { EFI_SUCCESS, EFI_UNSUPPORTED, EFI_DEVICE_ERROR } :
        \A ListenStatus \in { EFI_SUCCESS, EFI_OUT_OF_RESOURCES } :
          MacAddressEmulationEntry(AllocOk, EnableStatus, ListenStatus) =>
            /\ (~EFI_ERROR(IsMacEmulationEnabled.Status) /\ ~AllocOk) =>
                 (entryStatus' = EFI_OUT_OF_RESOURCES /\ ~listening')
            /\ (~EFI_ERROR(IsMacEmulationEnabled.Status) /\ AllocOk /\ EFI_ERROR(EnableStatus)) =>
                 (entryStatus' = EnableStatus /\ ~listening')
            /\ entryStatus' = EFI_SUCCESS =>
                 /\ ~EFI_ERROR(IsMacEmulationEnabled.Status)
                 /\ AllocOk
                 /\ ~EFI_ERROR(EnableStatus)]_vars
  /\ [](entryStatus \notin { NotLoaded, EFI_SUCCESS } => (~listening /\ NothingWritten))
  /\ [](entryStatus = EFI_SUCCESS =>
          (emulation.Status = EFI_SUCCESS /\ Context.Allocated /\ enableCalled))

\* PlatformMacEmulationEnable has failed, the entry point returned its
\* status, and an interface that passes every device test has been
\* initialized since.
C13_Witness ==
  /\ emulation.Status = EFI_SUCCESS
  /\ Context.Allocated
  /\ enableCalled
  /\ entryStatus = EFI_DEVICE_ERROR
  /\ ~listening
  /\ \E h \in registry : DeviceOk(h)

\* C14: Context.Assigned is FALSE when the entry point has constructed the
\* context; it changes to TRUE only in the step that ends SetSnpMacViaContext
\* after a StationAddress call on the candidate returned success and
\* installed the emulated address; once TRUE it is TRUE after every later
\* step, whether a later run's call fails or its scan finds no interface.
C14_AssignedMonotone ==
  [][ /\ (~Context.Allocated /\ Context'.Allocated) => ~Context'.Assigned
      /\ (~Context.Assigned /\ Context'.Assigned) =>
           /\ AssignStep
           /\ Top.SnpToConfigureEmu # NULL
           /\ Top.Status = EFI_SUCCESS
           /\ snp[Top.SnpToConfigureEmu].CurrentAddress = Context.EmulationAddress
      /\ Context.Assigned => Context'.Assigned ]_vars

\* After the assignment a later handler run is about to finish
\* SetSnpMacViaContext after a failed StationAddress call.
C14_Witness ==
  /\ Context.Assigned
  /\ Len(stack) = 1
  /\ Top.pc = "CheckStatus"
  /\ Top.SnpToConfigureEmu # NULL
  /\ EFI_ERROR(Top.Status)

\* C15: whenever the handler calls SetSnpMacViaContext, the candidate it
\* passes is an interface the scan returned, never NULL.
C15_NeverNullCandidate ==
  (stack # << >> /\ Top.pc = "SetSnpMacViaContext") => Top.SnpToConfigureEmu # NULL

\* The innermost handler run is about to call FindMatchingSnp.
AtScan == stack # << >> /\ Top.pc = "Notify" /\ Top.Context # NULL

\* The innermost handler run is in SetSnpMacViaContext with no candidate.
NoCandidateRun ==
  /\ stack # << >>
  /\ Top.pc \in { "SetSnpMacViaContext", "CheckStatus" }
  /\ Top.SnpToConfigureEmu = NULL

PcOrder ==
  << "Notify", "SetSnpMacViaContext", "RestoreCallback", "StationAddress",
     "RaiseAgain", "RestoreOld", "CheckStatus" >>

PcRank(pc) == CHOOSE i \in 1 .. Len(PcOrder) : PcOrder[i] = pc

\* The first interface of buffer b that is eligible, NULL if there is none.
FirstEligible(b) ==
  IF \E i \in 1 .. Len(b) : Eligible(b[i])
  THEN b[CHOOSE i \in 1 .. Len(b) : Eligible(b[i]) /\ \A j \in 1 .. (i - 1) : ~Eligible(b[j])]
  ELSE NULL

\* C17: while the listener is armed every interface-initialization event
\* queues one notification, which starts one handler run before anything
\* else happens.  A run only moves forward through the code, one scan and at
\* most one StationAddress call; the scan selects the first eligible
\* interface of the enumeration, and a successful call changes the station
\* address of the selected interface and of no other, however many
\* interfaces are eligible.
C17_OneScanOneWrite ==
  /\ [](AtScan =>
          \A e \in Enumerations :
            FindMatchingSnp(SnpSupportsMacEmuCheckPtr, ContextPtr, e[1][1], e[1][2], e[2])
              = FirstEligible(e[1][2]))
  /\ [][ /\ (listening /\ \E h \in Handles :
                 /\ snp[h].State # EfiSimpleNetworkInitialized
                 /\ snp'[h].State = EfiSimpleNetworkInitialized) => (~signaled /\ signaled')
         /\ signaled =>
              /\ ~signaled'
              /\ Len(stack') = Len(stack) + 1
              /\ stack'[Len(stack')].pc = "Notify"
         /\ Len(stack') > Len(stack) => signaled
         /\ \A i \in 1 .. Len(stack) :
              /\ (i < Len(stack) /\ i <= Len(stack')) => stack'[i] = stack[i]
              /\ (i = Len(stack) /\ i <= Len(stack') /\ stack'[i] # stack[i]) =>
                   PcRank(stack'[i].pc) > PcRank(stack[i].pc)
         /\ FindStep => stack'[Len(stack)].SnpToConfigureEmu \in { h \in registry : Eligible(h) } \cup { NULL }
         /\ (\E h \in Handles : snp'[h].CurrentAddress # snp[h].CurrentAddress) => WriteOkStep
         /\ WriteStep =>
              /\ stack'[Len(stack)].SnpToConfigureEmu = Top.SnpToConfigureEmu
              /\ \A h \in Handles \ { Top.SnpToConfigureEmu } : snp'[h] = snp[h] ]_vars

\* A StationAddress call has succeeded in a run that started with two
\* eligible interfaces registered, and one interface carries the emulated
\* address.
C17_Witness ==
  /\ Len(stack) = 1
  /\ Top.pc = "RaiseAgain"
  /\ ~EFI_ERROR(Top.Status)
  /\ ~Context.Assigned
  /\ Cardinality({ h \in registry : Eligible(h) }) >= 2
  /\ Emulated = { Top.SnpToConfigureEmu }

\* The order of the eligibility predicates.
TestOrder ==
  << "NullCheck", "State", "IfType", "MacAddressChangeable",
     "PlatformMacEmulationSnpCheck", "CompareMem" >>

\* Predicate Test passes for the arguments of the recorded call.
TestPasses(Test) ==
  IF Test = "NullCheck"
  THEN call.SnpHandle # NULL /\ call.Snp # NULL /\ call.Context # NULL
  ELSE IF Test = "State" THEN snp[call.Snp].State = EfiSimpleNetworkInitialized
  ELSE IF Test = "IfType" THEN snp[call.Snp].IfType = NET_IFTYPE_ETHERNET
  ELSE IF Test = "MacAddressChangeable" THEN snp[call.Snp].MacAddressChangeable
  ELSE IF Test = "PlatformMacEmulationSnpCheck" THEN platformOk[call.SnpHandle]
  ELSE snp[call.Snp].PermanentAddress = Context.PermanentAddress

\* Test was evaluated in the recorded call.
WasEvaluated(Test) == \E i \in 1 .. Len(call.evaluated) : call.evaluated[i] = Test

\* C18: the predicates are evaluated in the order null-check, link state,
\* interface type, programmability, platform check, permanent-address
\* comparison, and none is evaluated after one has failed.  So the platform
\* check is consulted only for a candidate that is non-null, Initialized,
\* Ethernet and address-changeable, and the comparison is made only when the
\* platform check approved the candidate.
C18_FixedOrderFirstFailure ==
  call.op = "SnpSupportsMacEmuCheck" =>
    /\ Len(call.evaluated) >= 1
    /\ call.evaluated = SubSeq(TestOrder, 1, Len(call.evaluated))
    /\ \A i \in 1 .. (Len(call.evaluated) - 1) : TestPasses(call.evaluated[i])
    /\ call.ret = FALSE => ~TestPasses(call.evaluated[Len(call.evaluated)])
    /\ call.ret = TRUE =>
         /\ \A i \in 1 .. Len(call.evaluated) : TestPasses(call.evaluated[i])
         /\ Len(call.evaluated) >= Len(TestOrder) - 1
         /\ Context.Assigned => Len(call.evaluated) = Len(TestOrder)
    /\ WasEvaluated("PlatformMacEmulationSnpCheck") =>
         /\ call.SnpHandle # NULL /\ call.Snp # NULL /\ call.Context # NULL
         /\ snp[call.Snp].State = EfiSimpleNetworkInitialized
         /\ snp[call.Snp].IfType = NET_IFTYPE_ETHERNET
         /\ snp[call.Snp].MacAddressChangeable
    /\ WasEvaluated("CompareMem") => platformOk[call.SnpHandle]

\* A call for an Initialized interface that is not Ethernet and that the
\* platform would approve stopped after the interface-type test.
C18_Witness ==
  /\ call.op = "SnpSupportsMacEmuCheck"
  /\ call.SnpHandle # NULL /\ call.Snp = call.SnpHandle /\ call.Context # NULL
  /\ snp[call.Snp].State = EfiSimpleNetworkInitialized
  /\ snp[call.Snp].IfType # NET_IFTYPE_ETHERNET
  /\ platformOk[call.SnpHandle]
  /\ call.evaluated = << "NullCheck", "State", "IfType" >>
  /\ call.ret = FALSE

\* C19: once Context.Assigned is TRUE, no step changes
\* Context.PermanentAddress: it stays the permanent address of the interface
\* of the first successful assignment.
C19_PermanentAddressFrozen ==
  [][Context.Assigned => Context'.PermanentAddress = Context.PermanentAddress]_vars

\* A step of the innermost handler run that stays in the run.
InRunStep == stack # << >> /\ Len(stack') = Len(stack) /\ stack' # stack

\* C20: SetSnpMacViaContext is TPL-neutral.  It is entered at the level of
\* the handler; with no candidate it changes no level; with a candidate the
\* first RaiseTPL saves the level of entry in OldTpl, each RaiseTPL to
\* TPL_HIGH_LEVEL is followed by a RestoreTPL as the next step of the run,
\* and after the last RestoreTPL, whether the StationAddress call succeeded
\* or failed, the level is the level of entry again.
C20_TplNeutral ==
  /\ [](stack # << >> =>
          /\ Top.pc \in { "SetSnpMacViaContext", "CheckStatus" } => tpl = TPL_NOTIFY
          /\ Top.pc \in { "RestoreCallback", "RestoreOld" } => tpl = TPL_HIGH_LEVEL
          /\ Top.pc \in { "RestoreCallback", "StationAddress", "RaiseAgain", "RestoreOld" } =>
               Top.OldTpl = TPL_NOTIFY
          /\ (Top.pc = "CheckStatus" /\ Top.SnpToConfigureEmu # NULL) => tpl = Top.OldTpl)
  /\ [][InRunStep =>
          /\ (Top.pc = "SetSnpMacViaContext" /\ Top.SnpToConfigureEmu = NULL) =>
               (tpl' = tpl /\ stack'[Len(stack)].pc = "CheckStatus")
          /\ (Top.pc = "SetSnpMacViaContext" /\ Top.SnpToConfigureEmu # NULL) =>
               stack'[Len(stack)].OldTpl = tpl
          /\ tpl' > tpl =>
               (tpl' = TPL_HIGH_LEVEL /\ stack'[Len(stack)].pc \in { "RestoreCallback", "RestoreOld" })
          /\ Top.pc \in { "RestoreCallback", "RestoreOld" } => tpl' < tpl
          /\ Top.pc = "RestoreOld" =>
               (tpl' = Top.OldTpl /\ stack'[Len(stack)].pc = "CheckStatus") ]_vars

\* SetSnpMacViaContext is about to return after a successful StationAddress
\* call in a run nested in another: the level is that of its entry.
C20_Witness ==
  /\ Len(stack) = 2
  /\ Top.pc = "CheckStatus"
  /\ Top.SnpToConfigureEmu # NULL
  /\ Top.Status = EFI_SUCCESS
  /\ Top.OldTpl = TPL_NOTIFY
  /\ tpl = TPL_NOTIFY
  /\ Top.ReturnTpl = TPL_CALLBACK

====
